---- MODULE Spec2Model ----
(***************************************************************************)
(* Model of the two collective-variable pipelines of mlcvs:                *)
(*   mlcvs/cvs/supervised/regression_cv.py   (Regression_CV)               *)
(*   mlcvs/cvs/timelagged/deeptica_cv.py     (DeepTICA_CV)                 *)
(* Tensors are sequences (the batch) of samples; a sample is a tuple of    *)
(* integers.  Python values None / False / dict are tagged records.        *)
(***************************************************************************)
EXTENDS Integers, Sequences, FiniteSets, TLC

VARIABLES
    cls,          \* which class the driving script instantiates
    callerOpts,   \* the options mapping object the caller holds
    callerOrig,   \* the value of that mapping when the caller made it
    defaultOpts,  \* the object bound to the default argument `options = {}`
    reg,          \* the Regression_CV instance
    nBuilt,       \* how many constructions were attempted
    call,         \* the last forward call: input, output, blocks before it
    traced,       \* the traced export of the Regression_CV model
    dt,           \* the DeepTICA_CV instance
    ts,           \* the frame of the training_step in progress or just left
    diag,         \* what log_dict has emitted: how many records, and the last
    lastSet       \* the last set_regularization call

vars == <<cls, callerOpts, callerOrig, defaultOpts, reg, nBuilt, call, traced,
          dt, ts, diag, lastSet>>

(***************************** bounds **************************************)
MaxBuilt == 2      \* constructions per run
MaxBatch == 2      \* samples in a batch
MaxAcc   == 2      \* samples a Normalization block accumulates per run
MaxSteps == 1      \* training steps per run

(************************* Python values ***********************************)
None  == [tag |-> "None"]
False == [tag |-> "False"]
IntVal(n) == [tag |-> "int", val |-> n]
Dict(items) == [tag |-> "dict", items |-> items]   \* items: set of <<key, int>>
EmptyDict == Dict({})

\* Python truthiness: None, False and the empty dict are falsy.
Truthy(v) == v.tag = "dict" /\ v.items # {}

\* `**v` in a call: only a mapping can be unpacked, anything else is a TypeError.
CanUnpack(v) == v.tag = "dict"

\* keyword lookup with the callee's default
Kw(v, key, dflt) ==
    IF \E p \in v.items : p[1] = key
    THEN (CHOOSE p \in v.items : p[1] = key)[2]
    ELSE dflt

EmptyMap == [k \in {} |-> None]

\* what a caller may put under a block name
NormOptionValues == {None, False, EmptyDict, Dict({<<"mean", 1>>})}
NNOptionValues   == {EmptyDict, Dict({<<"activation", 1>>})}

\* dict.setdefault(k, v): inserts only when the key is missing
setdefault(m, k, v) ==
    IF k \in DOMAIN m THEN m
    ELSE [x \in (DOMAIN m) \cup {k} |-> IF x = k THEN v ELSE m[x]]

RECURSIVE SumSeq(_)
SumSeq(s) == IF s = <<>> THEN 0 ELSE Head(s) + SumSeq(Tail(s))

RECURSIVE Flatten(_)
Flatten(t) == IF t = <<>> THEN <<>> ELSE Head(t) \o Flatten(Tail(t))

(*********************** building blocks ***********************************)
\* mlcvs.core Normalization: affine standardisation with running statistics.
Normalization(in_features, kw) ==
    [kind |-> "Normalization", in_features |-> in_features, opts |-> kw,
     mean |-> Kw(kw, "mean", 0), n_acc |-> 0, s_acc |-> 0]

\* mlcvs.core FeedForward: the learned featurisation, layers[1] -> layers[-1].
FeedForward(layers, kw) ==
    [kind |-> "FeedForward", layers |-> layers, opts |-> kw,
     weight |-> 2, bias |-> 1]

NormalizeSample(block, v) == [j \in 1..Len(v) |-> v[j] - block.mean]

FeedSample(block, v) ==
    [j \in 1..block.layers[Len(block.layers)] |->
        block.weight * SumSeq(v) + j * block.bias]

\* In training mode a Normalization block accumulates running statistics of
\* what it is fed; the value it returns does not depend on the mode.
AccumulateStats(block, x, training) ==
    IF training
    THEN [block EXCEPT !.n_acc = @ + Len(x), !.s_acc = @ + SumSeq(Flatten(x))]
    ELSE block

\* TICA.forward: projection on the cached eigenvectors
ProjectSample(block, v) == [j \in 1..block.out_features |-> v[j] * block.evecs[j]]

\* block(x): the output tensor and the block afterwards
BlockCall(block, x, training) ==
    IF block.kind = "Normalization"
    THEN [out   |-> [i \in 1..Len(x) |-> NormalizeSample(block, x[i])],
          block |-> AccumulateStats(block, x, training)]
    ELSE IF block.kind = "TICA"
    THEN [out   |-> [i \in 1..Len(x) |-> ProjectSample(block, x[i])],
          block |-> block]
    ELSE [out   |-> [i \in 1..Len(x) |-> FeedSample(block, x[i])],
          block |-> block]

(*********************** Regression_CV *************************************)
RegBlocks == <<"normIn", "nn">>

\* `if ( not options[o] ) and (options[o] is not None)`
RegNormInTest(v) == (~Truthy(v)) /\ v # None

\* Regression_CV.__init__(layers, options): the instance, the options object
\* after the call, and the exception that left the constructor (if any).
Regression_CV_init(layers, options) ==
    LET o1   == setdefault(options, "normIn", EmptyDict)
        o2   == setdefault(o1, "nn", EmptyDict)
        n_in == layers[1]
        n_out == layers[Len(layers)]
        base == [normIn |-> None, nn |-> None]
        raiseNorm == RegNormInTest(o2["normIn"]) /\ ~CanUnpack(o2["normIn"])
        s1   == IF RegNormInTest(o2["normIn"]) /\ ~raiseNorm
                THEN [base EXCEPT !.normIn = Normalization(n_in, o2["normIn"])]
                ELSE base
        raiseNN == ~CanUnpack(o2["nn"])
        s2   == [s1 EXCEPT !.nn = FeedForward(layers, o2["nn"])]
    IN  [options |-> o2,
         self |-> IF raiseNorm \/ raiseNN
                  THEN [status |-> "TypeError", blocks |-> RegBlocks,
                        slots |-> IF raiseNorm THEN base ELSE s1,
                        n_in |-> n_in, n_out |-> n_out, training |-> TRUE,
                        optNormIn |-> o2["normIn"], optNN |-> o2["nn"]]
                  ELSE [status |-> "built", blocks |-> RegBlocks, slots |-> s2,
                        n_in |-> n_in, n_out |-> n_out, training |-> TRUE,
                        optNormIn |-> o2["normIn"], optNN |-> o2["nn"]]]

\* a loop that walks the block names from the last to the first
BlockOrderReversed(blocks) == [i \in 1..Len(blocks) |-> blocks[Len(blocks) + 1 - i]]

\* `for b in self.blocks`
BlockOrder(blocks) == blocks

\* a test that also looks at the data: a block is skipped on an all-zero batch
BlockAppliesDataDependent(block, x) == block # None /\ SumSeq(Flatten(x)) # 0

\* `if block is not None`
BlockApplies(block, x) == block # None

\* Regression_CV.forward: the output, the slots afterwards and the blocks
\* that were called, in call order.
RECURSIVE forward_loop(_, _, _, _, _)
forward_loop(blocks, slots, training, x, ops) ==
    IF blocks = <<>> THEN [out |-> x, slots |-> slots, ops |-> ops]
    ELSE LET b == Head(blocks)
             block == slots[b]
         IN  IF BlockApplies(block, x)
             THEN LET r == BlockCall(block, x, training)
                  IN  forward_loop(Tail(blocks), [slots EXCEPT ![b] = r.block],
                                   training, r.out, Append(ops, b))
             ELSE forward_loop(Tail(blocks), slots, training, x, ops)

forward(self, x) == forward_loop(BlockOrder(self.blocks), self.slots, self.training, x, <<>>)

(************************* DeepTICA_CV *************************************)
\* BLOCKS = ['normIn','nn','normNN','tica','normOut']
TicaBlocks == <<"normIn", "nn", "normNN", "tica", "normOut">>

\* BaseCV.sanitize_options: None is the empty mapping, and every block name
\* that is missing gets the empty options mapping (the block's defaults).
RECURSIVE SetDefaults(_, _)
SetDefaults(m, blocks) ==
    IF blocks = <<>> THEN m
    ELSE SetDefaults(setdefault(m, Head(blocks), EmptyDict), Tail(blocks))

sanitize_options(options) ==
    SetDefaults(IF options = None THEN EmptyMap ELSE options, TicaBlocks)

\* The generalized eigensolver finds the k largest of d eigenvalues:
\* 1 <= k <= d, anything else is a configuration error.
SolveAccepts(d, k) == 1 <= k /\ k <= d

\* How the call TICA(in_features, out_features) can end.  A configuration
\* error is raised at construction or at call time: for k outside 1..d the
\* constructor either raises, or returns and leaves the error to compute.
TICA_init_results(d, k) ==
    IF SolveAccepts(d, k) THEN {"ok"} ELSE {"ok", "ConfigurationError"}

\* reg_c0 in units of 1e-6; no decomposition cached yet
TICA(d, k, kw) ==
    [kind |-> "TICA", in_features |-> d, out_features |-> k, opts |-> kw,
     reg_c0 |-> 1, evals |-> <<>>, evecs |-> [j \in 1..k |-> 1]]

\* `out_features if out_features is not None else layers[-1]`
OutFeaturesArg(out_features, layers) ==
    IF out_features # None THEN out_features.val ELSE layers[Len(layers)]

\* `if options[o]:` -- only a non-empty mapping switches the block on
TicaNormTestTruthy(v) == Truthy(v)

\* `if ( options[o] is not False ) and (options[o] is not None)`
TicaNormTest(v) == v # False /\ v # None

DefaultLossOptions == [mode |-> "sum2", n_eig |-> 0]

\* DeepTICA_CV.__init__(layers, out_features, options).  The constructor holds
\* no check of out_features: tica_result is how the call TICA(...) of line 56
\* ended, and an exception raised there leaves the constructor unhandled.
DeepTICA_CV_init(layers, out_features, options, tica_result) ==
    LET in_f == layers[1]
        d    == layers[Len(layers)]
        k    == OutFeaturesArg(out_features, layers)
        o    == sanitize_options(options)
        base == [b \in {"normIn", "nn", "normNN", "tica", "normOut"} |-> None]
        s1   == IF TicaNormTest(o["normIn"])
                THEN [base EXCEPT !["normIn"] = Normalization(in_f, o["normIn"])]
                ELSE base
        raiseNN == ~CanUnpack(o["nn"])
        s2   == [s1 EXCEPT !["nn"] = FeedForward(layers, o["nn"])]
        raiseKw == ~CanUnpack(o["tica"])
        raiseK  == tica_result # "ok"
        s3   == [s2 EXCEPT !["tica"] = TICA(d, k, o["tica"])]
        s4   == IF TicaNormTest(o["normOut"])
                THEN [s3 EXCEPT !["normOut"] = Normalization(k, o["normOut"])]
                ELSE s3
        status == IF raiseNN \/ raiseKw THEN "TypeError"
                  ELSE IF raiseK THEN tica_result ELSE "built"
        self == [status |-> status, blocks |-> TicaBlocks,
                 slots |-> IF raiseNN THEN s1
                           ELSE IF raiseKw \/ raiseK THEN s2 ELSE s4,
                 in_features |-> in_f, out_features |-> k, d |-> d,
                 requested |-> out_features, training |-> TRUE, steps |-> 0,
                 optNormIn |-> o["normIn"], optNormOut |-> o["normOut"],
                 optNN |-> o["nn"]]
    \* lines 64-65 are reached only when nothing raised before them: an
    \* instance whose construction failed has no loss_options attribute
    IN  IF status = "built"
        THEN self @@ [loss_options |-> DefaultLossOptions]
        ELSE self

\* DeepTICA_CV.forward_nn: normIn when present, then nn
forward_nn(self, x) ==
    LET nIn == self.slots["normIn"]
        r1  == IF nIn # None THEN BlockCall(nIn, x, self.training)
               ELSE [out |-> x, block |-> nIn]
        r2  == BlockCall(self.slots["nn"], r1.out, self.training)
    IN  [out |-> r2.out,
         slots |-> [self.slots EXCEPT !["normIn"] = r1.block, !["nn"] = r2.block],
         ops |-> (IF nIn # None THEN <<"normIn">> ELSE <<>>) \o <<"nn">>]

\* a set_regularization that also drops the cached decomposition
set_regularization_resetting(self, c0_reg) ==
    [self EXCEPT !.slots["tica"].reg_c0 = c0_reg,
                 !.slots["tica"].evals = <<>>,
                 !.slots["tica"].evecs = [j \in 1..self.out_features |-> 1]]

\* DeepTICA_CV.set_regularization: `self.tica.reg_c0 = c0_reg`
set_regularization(self, c0_reg) ==
    [self EXCEPT !.slots["tica"].reg_c0 = c0_reg]

(* TICA.compute(data=[f_t, f_lag], weights=[w_t, w_lag], save_params): the    *)
(* weighted covariances of every feature, regularised by reg_c0, and the     *)
(* eigenvalues Ctau/C0 in tenths, sorted descending (ties: lower index       *)
(* first), the first out_features of them.                                   *)
ShapesAgree(f_t, f_lag, w_t, w_lag) ==
    Len(f_t) = Len(w_t) /\ Len(f_lag) = Len(w_lag) /\ Len(f_t) = Len(f_lag)

CovC0(f_t, f_lag, w_t, w_lag, j, c0_reg) ==
    SumSeq([i \in 1..Len(f_t) |->
              w_t[i] * f_t[i][j] * f_t[i][j] + w_lag[i] * f_lag[i][j] * f_lag[i][j]])
    + 2 * c0_reg

CovCtau(f_t, f_lag, w_t, w_lag, j) ==
    SumSeq([i \in 1..Len(f_t) |-> (w_t[i] + w_lag[i]) * f_t[i][j] * f_lag[i][j]])

RECURSIVE InsertDesc(_, _)
InsertDesc(p, s) ==
    IF s = <<>> THEN <<p>>
    ELSE IF p[1] >= Head(s)[1] THEN <<p>> \o s
    ELSE <<Head(s)>> \o InsertDesc(p, Tail(s))

RECURSIVE SortDesc(_)
SortDesc(s) == IF s = <<>> THEN <<>> ELSE InsertDesc(Head(s), SortDesc(Tail(s)))

TICA_compute(block, f_t, f_lag, w_t, w_lag, save_params) ==
    IF ~ShapesAgree(f_t, f_lag, w_t, w_lag)
    THEN [err |-> "ShapeMismatchError", block |-> block]
    ELSE IF ~SolveAccepts(block.in_features, block.out_features)
    THEN [err |-> "ConfigurationError", block |-> block]
    ELSE LET d   == block.in_features
             k   == block.out_features
             c0_reg == block.reg_c0
             c0(j) == CovC0(f_t, f_lag, w_t, w_lag, j, c0_reg)
         IN  IF \E j \in 1..d : c0(j) <= 0
             THEN [err |-> "NumericalInstabilityError", block |-> block]
             ELSE LET pairs  == [j \in 1..d |->
                                   <<(10 * CovCtau(f_t, f_lag, w_t, w_lag, j)) \div c0(j),
                                     c0(j)>>]
                      sorted == SubSeq(SortDesc(pairs), 1, k)
                      evals  == [j \in 1..k |-> sorted[j][1]]
                      evecs  == [j \in 1..k |-> sorted[j][2]]
                  IN  [err |-> "", evals |-> evals, evecs |-> evecs, reg_used |-> c0_reg,
                       block |-> IF save_params
                                 THEN [block EXCEPT !.evals = evals, !.evecs = evecs]
                                 ELSE block]

\* mlcvs.core.loss.eigvals reduce_eigenvalues(eigenvalues, mode, n_eig)
Selected(ev, n_eig) ==
    IF n_eig = 0 \/ n_eig >= Len(ev) THEN ev ELSE SubSeq(ev, 1, n_eig)

reduce_eigenvalues(ev, mode, n_eig) ==
    LET sel == Selected(ev, n_eig)
    IN  IF mode = "sum" THEN [err |-> "", val |-> SumSeq(sel)]
        ELSE IF mode = "sum2"
        THEN [err |-> "", val |-> SumSeq([i \in 1..Len(sel) |-> sel[i] * sel[i]])]
        ELSE IF Len(sel) < 2 THEN [err |-> "ConfigurationError", val |-> 0]
        ELSE [err |-> "", val |-> sel[1] - sel[2]]

\* a loss that forgets the sign
loss_function_unsigned(eigenvalues, kwargs) ==
    reduce_eigenvalues(eigenvalues, kwargs.mode, kwargs.n_eig)

\* DeepTICA_CV.loss_function: `loss = - reduce_eigenvalues(eigenvalues, **kwargs)`
loss_function(eigenvalues, kwargs) ==
    LET r == reduce_eigenvalues(eigenvalues, kwargs.mode, kwargs.n_eig)
    IN  [err |-> r.err, val |-> 0 - r.val]

\* an extra pass that runs in every mode
ExtraPassAlways(training) == TRUE

\* `if self.training:` before `z = self.forward(x_t)`
ExtraPassRuns(training) == training

(*************************** inputs ****************************************)
TicaLayerChoices == {<<2, 3, 2>>, <<2, 1>>}
OutFeatureArgs   == {None, IntVal(1), IntVal(2), IntVal(3)}
TicaOptionArgs ==
    {None, [k \in {"nn"} |-> None]}
    \cup {[k \in {"normOut"} |-> v] : v \in NormOptionValues}
    \cup {[k \in {"normIn", "normOut"} |-> IF k = "normIn" THEN a ELSE b] :
            a \in NormOptionValues, b \in NormOptionValues}

IdleTs == [pc |-> "idle"]
NoDiag == [n |-> 0]

\* regularisation values (units of 1e-6) and the loss options a script sets
RegVals == {0, 2}
LossOptionChoices ==
    {[mode |-> "sum", n_eig |-> 2], [mode |-> "gap", n_eig |-> 0],
     [mode |-> "sum2", n_eig |-> 1]}

\* A training batch: sample i of `data` has all components i % 2, the lagged
\* sample the other value; weights i.  One tensor may be one row too long.
TicaTensor(len, n, shift) ==
    [i \in 1..len |-> [j \in 1..n |-> (i + shift) % 2]]
TicaWeights(len) == [i \in 1..len |-> i]
TicaBatch(n, lens) ==
    [data |-> TicaTensor(lens[1], n, 0), data_lag |-> TicaTensor(lens[2], n, 1),
     weights |-> TicaWeights(lens[3]), weights_lag |-> TicaWeights(lens[4])]
TicaBatches(n) ==
    {TicaBatch(n, [q \in 1..4 |-> IF q = bad THEN len + 1 ELSE len]) :
        len \in 1..MaxBatch, bad \in 0..4}

LayerChoices == {<<1, 1>>, <<2, 3, 1>>}


\* The mappings a caller may pass: any subset of the block names as keys, and
\* the mapping of test_regression_cv, whose only key names no block.
CallerMappings ==
    {EmptyMap, [k \in {"FeedForward"} |-> Dict({<<"activation", 1>>})]}
    \cup {[k \in {"normIn"} |-> v] : v \in NormOptionValues}
    \cup {[k \in {"nn"} |-> v] : v \in NNOptionValues \cup {None}}
    \cup {[k \in {"normIn", "nn"} |-> IF k = "normIn" THEN v ELSE EmptyDict] :
            v \in NormOptionValues}

\* input values, and the values the optimizer gives the network weight
XVals   == {0, 1}
Weights == {1, 2}

\* batches of 1..MaxBatch equal samples, a sample having n equal components
Samples(n) == {[j \in 1..n |-> v] : v \in XVals}
Batches(n) == {[i \in 1..len |-> smp] : len \in 1..MaxBatch, smp \in Samples(n)}

NoCall == [made |-> FALSE]
NoModel == [status |-> "none"]

(********************* construction: actions *******************************)
ctorVars == <<callerOpts, callerOrig, defaultOpts, nBuilt>>
runVars  == <<call, traced>>
ticaRunVars == <<ts, diag, lastSet>>

InitCtor ==
    /\ cls \in {"Regression_CV", "DeepTICA_CV"}
    /\ callerOpts = EmptyMap
    /\ callerOrig = EmptyMap
    /\ defaultOpts = EmptyMap
    /\ reg = NoModel
    /\ nBuilt = 0
    /\ call = NoCall
    /\ traced = NoCall
    /\ dt = NoModel
    /\ ts = IdleTs
    /\ diag = NoDiag
    /\ lastSet = NoCall

\* the caller writes a new options mapping (a fresh dict object)
NewOptions ==
    /\ cls = "Regression_CV"
    /\ nBuilt < MaxBuilt
    /\ \E m \in CallerMappings : callerOpts' = m /\ callerOrig' = m
    /\ UNCHANGED <<cls, defaultOpts, reg, nBuilt, runVars, dt, ticaRunVars>>

\* Regression_CV(layers=layers, options=callerOpts)
ConstructWithOptions ==
    /\ cls = "Regression_CV"
    /\ nBuilt < MaxBuilt
    /\ \E layers \in LayerChoices :
         LET r == Regression_CV_init(layers, callerOpts)
         IN  /\ reg' = r.self
             /\ callerOpts' = r.options
    /\ nBuilt' = nBuilt + 1
    /\ UNCHANGED <<cls, callerOrig, defaultOpts, runVars, dt, ticaRunVars>>

\* Regression_CV(layers=layers): options is the default-argument object
ConstructDefault ==
    /\ cls = "Regression_CV"
    /\ nBuilt < MaxBuilt
    /\ \E layers \in LayerChoices :
         LET r == Regression_CV_init(layers, defaultOpts)
         IN  /\ reg' = r.self
             /\ defaultOpts' = r.options
    /\ nBuilt' = nBuilt + 1
    /\ UNCHANGED <<cls, callerOpts, callerOrig, runVars, dt, ticaRunVars>>

\* DeepTICA_CV(layers, out_features=out_features, options=options)
ConstructDeepTICA ==
    /\ cls = "DeepTICA_CV"
    /\ \E layers \in TicaLayerChoices, out_features \in OutFeatureArgs,
          options \in TicaOptionArgs :
         \E tica_result \in TICA_init_results(layers[Len(layers)],
                                              OutFeaturesArg(out_features, layers)) :
            dt' = DeepTICA_CV_init(layers, out_features, options, tica_result)
    /\ UNCHANGED <<cls, ctorVars, reg, runVars, ticaRunVars>>

NextCtor ==
    \/ NewOptions
    \/ ConstructWithOptions
    \/ ConstructDefault
    \/ ConstructDeepTICA

SpecCtor == InitCtor /\ [][NextCtor]_vars

(************************* use: actions ************************************)
\* the models the run starts from: built by the constructor
RunMappings == {EmptyMap, [k \in {"normIn"} |-> None]}

RunTicaOptions ==
    {None, [k \in {"normIn", "normOut"} |-> IF k = "normIn" THEN None ELSE False],
     [k \in {"normIn"} |-> Dict({<<"mean", 1>>})]}

InitRun ==
    /\ cls \in {"Regression_CV", "DeepTICA_CV"}
    /\ IF cls = "Regression_CV"
       THEN /\ \E layers \in LayerChoices, m \in RunMappings :
                 LET r == Regression_CV_init(layers, m)
                 IN  reg = r.self /\ callerOpts = r.options /\ callerOrig = m
            /\ nBuilt = 1
            /\ dt = NoModel
       ELSE /\ reg = NoModel /\ callerOpts = EmptyMap /\ callerOrig = EmptyMap
            /\ nBuilt = 0
            /\ \E out_features \in {None, IntVal(1)}, o \in RunTicaOptions :
                 dt = DeepTICA_CV_init(<<2, 3, 2>>, out_features, o, "ok")
    /\ defaultOpts = EmptyMap
    /\ call = NoCall
    /\ traced = NoCall
    /\ ts = IdleTs
    /\ diag = NoDiag
    /\ lastSet = NoCall

\* model.train() / model.eval()
SetMode ==
    /\ cls = "Regression_CV"
    /\ reg.status = "built"
    /\ reg' = [reg EXCEPT !.training = ~@]
    /\ UNCHANGED <<cls, ctorVars, runVars, dt, ticaRunVars>>

\* blocks whose statistics grow without bound stop being fed at MaxAcc
RegMayAccumulate(x) ==
    reg.training /\ reg.slots["normIn"] # None
        => reg.slots["normIn"].n_acc + Len(x) <= MaxAcc

\* what the call before this one returned, when it was given the same batch
Repeat(x) ==
    IF call.made /\ call.x = x
    THEN [made |-> TRUE, kind |-> call.kind, out |-> call.out,
          same |-> call.before = reg.slots, training |-> call.training]
    ELSE NoCall

\* y = model(x)
Forward ==
    /\ cls = "Regression_CV"
    /\ reg.status = "built"
    /\ \E x \in Batches(reg.n_in) :
         /\ RegMayAccumulate(x)
         /\ LET r == forward(reg, x)
            IN  /\ reg' = [reg EXCEPT !.slots = r.slots]
                /\ call' = [made |-> TRUE, kind |-> "eager", x |-> x, out |-> r.out,
                            ops |-> r.ops, before |-> reg.slots,
                            changed |-> r.slots # reg.slots,
                            training |-> reg.training, rep |-> Repeat(x)]
    /\ UNCHANGED <<cls, ctorVars, traced, dt, ticaRunVars>>

\* the optimizer returned by configure_optimizers updates the parameters of nn
OptimizerStep ==
    /\ cls = "Regression_CV"
    /\ reg.status = "built"
    /\ reg.training
    /\ \E w \in Weights :
         /\ w # reg.slots["nn"].weight
         /\ reg' = [reg EXCEPT !.slots["nn"].weight = w]
    /\ UNCHANGED <<cls, ctorVars, runVars, dt, ticaRunVars>>

\* model.to_torchscript(method='trace', example_inputs=X[0]): forward runs
\* once, in evaluation mode, on the example, and the calls it makes are
\* recorded; the export shares the parameters of the model.
Trace ==
    /\ cls = "Regression_CV"
    /\ reg.status = "built"
    /\ \E ex \in {b \in Batches(reg.n_in) : Len(b) = 1} :
         traced' = [made |-> TRUE,
                    ops |-> forward([reg EXCEPT !.training = FALSE], ex).ops]
    /\ UNCHANGED <<cls, ctorVars, reg, call, dt, ticaRunVars>>

\* replay of a recorded trace: the recorded calls, in order, nothing else
RECURSIVE ApplyOps(_, _, _)
ApplyOps(ops, slots, x) ==
    IF ops = <<>> THEN x
    ELSE ApplyOps(Tail(ops), slots, BlockCall(slots[Head(ops)], x, FALSE).out)

\* y = traced_model(x)
TracedForward ==
    /\ cls = "Regression_CV"
    /\ traced.made
    /\ \E x \in Batches(reg.n_in) :
         call' = [made |-> TRUE, kind |-> "traced", x |-> x,
                  out |-> ApplyOps(traced.ops, reg.slots, x),
                  ops |-> traced.ops, before |-> reg.slots,
                  changed |-> FALSE, training |-> FALSE, rep |-> Repeat(x)]
    /\ UNCHANGED <<cls, ctorVars, reg, traced, dt, ticaRunVars>>

(* ---- DeepTICA_CV in use ---- *)
TicaStepOver == ts.pc \in {"idle", "done", "raised"}

\* model.train() / model.eval()
TicaSetMode ==
    /\ cls = "DeepTICA_CV"
    /\ dt.status = "built"
    /\ TicaStepOver
    /\ dt' = [dt EXCEPT !.training = ~@]
    /\ ts' = IdleTs
    /\ UNCHANGED <<cls, ctorVars, reg, runVars, diag, lastSet>>

\* model.set_regularization(c0_reg)
SetRegularization ==
    /\ cls = "DeepTICA_CV"
    /\ dt.status = "built"
    /\ TicaStepOver
    /\ \E c0_reg \in RegVals :
         LET new == set_regularization(dt, c0_reg)
         IN  /\ dt' = new
             /\ lastSet' = [made |-> TRUE, value |-> c0_reg,
                            others |-> [new EXCEPT !.slots["tica"].reg_c0 =
                                            dt.slots["tica"].reg_c0] = dt]
    /\ ts' = IdleTs
    /\ UNCHANGED <<cls, ctorVars, reg, runVars, diag>>

\* model.set_loss_options(options), before training as in test_deep_tica
SetLossOptions ==
    /\ cls = "DeepTICA_CV"
    /\ dt.status = "built"
    /\ ts.pc = "idle" /\ dt.steps = 0
    /\ dt.loss_options = DefaultLossOptions
    /\ \E o \in LossOptionChoices : dt' = [dt EXCEPT !.loss_options = o]
    /\ UNCHANGED <<cls, ctorVars, reg, runVars, ticaRunVars>>

\* training_step, lines 110-113: the batch is unpacked
TS_GetData ==
    /\ cls = "DeepTICA_CV"
    /\ dt.status = "built"
    /\ TicaStepOver
    /\ dt.steps < MaxSteps
    /\ \E batch \in TicaBatches(dt.in_features) :
         ts' = [pc |-> "forward_t", batch |-> batch, training |-> dt.training,
                pre |-> dt.slots, diag0 |-> diag.n, events |-> <<>>, nFwd |-> 0,
                f_t |-> <<>>, f_lag |-> <<>>, eigvals |-> <<>>, reg_used |-> 0,
                loss |-> 0, ret |-> 0, err |-> ""]
    /\ dt' = [dt EXCEPT !.steps = @ + 1]
    /\ UNCHANGED <<cls, ctorVars, reg, runVars, diag, lastSet>>

\* line 115: f_t = self.forward_nn(x_t)
TS_ForwardT ==
    /\ ts.pc = "forward_t"
    /\ LET r == forward_nn(dt, ts.batch.data)
       IN  /\ dt' = [dt EXCEPT !.slots = r.slots]
           /\ ts' = [ts EXCEPT !.pc = "forward_lag", !.f_t = r.out,
                                !.nFwd = @ + 1, !.events = Append(@, "forward_nn")]
    /\ UNCHANGED <<cls, ctorVars, reg, runVars, diag, lastSet>>

\* line 116: f_lag = self.forward_nn(x_lag)
TS_ForwardLag ==
    /\ ts.pc = "forward_lag"
    /\ LET r == forward_nn(dt, ts.batch.data_lag)
       IN  /\ dt' = [dt EXCEPT !.slots = r.slots]
           /\ ts' = [ts EXCEPT !.pc = "tica", !.f_lag = r.out,
                                !.nFwd = @ + 1, !.events = Append(@, "forward_nn")]
    /\ UNCHANGED <<cls, ctorVars, reg, runVars, diag, lastSet>>

\* lines 118-120: eigvals, _ = self.tica.compute(..., save_params=True)
TS_Tica ==
    /\ ts.pc = "tica"
    /\ LET r == TICA_compute(dt.slots["tica"], ts.f_t, ts.f_lag,
                             ts.batch.weights, ts.batch.weights_lag, TRUE)
       IN  IF r.err # ""
           THEN /\ ts' = [ts EXCEPT !.pc = "raised", !.err = r.err]
                /\ UNCHANGED dt
           ELSE /\ ts' = [ts EXCEPT !.pc = "loss", !.eigvals = r.evals,
                                     !.reg_used = r.reg_used,
                                     !.events = Append(@, "tica.compute")]
                /\ dt' = [dt EXCEPT !.slots["tica"] = r.block]
    /\ UNCHANGED <<cls, ctorVars, reg, runVars, diag, lastSet>>

\* line 122: loss = self.loss_function(eigvals, **self.loss_options)
TS_Loss ==
    /\ ts.pc = "loss"
    /\ LET r == loss_function(ts.eigvals, dt.loss_options)
       IN  IF r.err # ""
           THEN ts' = [ts EXCEPT !.pc = "raised", !.err = r.err]
           ELSE ts' = [ts EXCEPT !.pc = "log", !.loss = r.val,
                                 !.events = Append(@, "loss_function")]
    /\ UNCHANGED <<cls, ctorVars, reg, runVars, dt, diag, lastSet>>

\* lines 124-127: self.log_dict({name_loss, name_eigval_i ...})
TS_Log ==
    /\ ts.pc = "log"
    /\ diag' = [n |-> diag.n + 1,
                last |-> [name |-> IF dt.training THEN "train" ELSE "valid",
                          loss |-> ts.loss, eigval |-> ts.eigvals]]
    /\ ts' = [ts EXCEPT !.pc = "norm", !.events = Append(@, "log_dict")]
    /\ UNCHANGED <<cls, ctorVars, reg, runVars, dt, lastSet>>

\* lines 129-131: in training mode z = self.forward(x_t), then return loss
TS_NormAndReturn ==
    /\ ts.pc = "norm"
    /\ IF ExtraPassRuns(dt.training)
       THEN /\ dt' = [dt EXCEPT !.slots = forward(dt, ts.batch.data).slots]
            /\ ts' = [ts EXCEPT !.pc = "done", !.ret = ts.loss,
                                 !.events = Append(@, "forward")]
       ELSE /\ ts' = [ts EXCEPT !.pc = "done", !.ret = ts.loss]
            /\ UNCHANGED dt
    /\ UNCHANGED <<cls, ctorVars, reg, runVars, diag, lastSet>>

NextRun ==
    \/ SetMode
    \/ Forward
    \/ OptimizerStep
    \/ Trace
    \/ TracedForward
    \/ TicaSetMode
    \/ SetRegularization
    \/ SetLossOptions
    \/ TS_GetData
    \/ TS_ForwardT
    \/ TS_ForwardLag
    \/ TS_Tica
    \/ TS_Loss
    \/ TS_Log
    \/ TS_NormAndReturn

SpecRun == InitRun /\ [][NextRun]_vars

(***************************** claims **************************************)
NormBatch(block, x) == [i \in 1..Len(x) |-> NormalizeSample(block, x[i])]
FeedBatch(block, x) == [i \in 1..Len(x) |-> FeedSample(block, x[i])]

\* C1: after Regression_CV(layers, options) the normIn slot holds a
\* Normalization block exactly when options['normIn'] is neither None nor
\* False; a mapping given there, empty or not, is what the block is built
\* with; with None or False the slot is empty and construction succeeds.
C1_NormInBuiltUnlessDisabled ==
    (reg.status # "none" /\ CanUnpack(reg.optNN)) =>
        /\ (reg.slots["normIn"] # None) <=> (reg.optNormIn \notin {None, False})
        /\ reg.optNormIn \in {None, False} => reg.status = "built"
        /\ reg.slots["normIn"] # None => reg.slots["normIn"].opts = reg.optNormIn

\* C10: constructing a Regression_CV writes neither into the caller's options
\* mapping nor into the default mapping shared between instances.
C10_OptionsNeverWritten ==
    callerOpts = callerOrig /\ defaultOpts = EmptyMap

\* nn applied to the normalized input when normIn is present, else to x.
NormThenFeed(slots, x) ==
    IF slots["normIn"] # None
    THEN FeedBatch(slots["nn"], NormBatch(slots["normIn"], x))
    ELSE FeedBatch(slots["nn"], x)

\* C3: forward calls the present blocks in the fixed slot order and skips
\* the empty slots; with nn the only present block the result is nn(x).
C3_ForwardAppliesPresentBlocksInOrder ==
    /\ (call.made /\ call.kind = "eager") =>
          /\ call.ops = (IF call.before["normIn"] # None THEN <<"normIn">> ELSE <<>>)
                            \o <<"nn">>
          /\ call.out = NormThenFeed(call.before, call.x)
    /\ (ts.pc # "idle" /\ ts.nFwd >= 1) => ts.f_t = NormThenFeed(ts.pre, ts.batch.data)
    /\ (ts.pc # "idle" /\ ts.nFwd >= 2) =>
          ts.f_lag = NormThenFeed(ts.pre, ts.batch.data_lag)

C3_Witness ==
    /\ call.made /\ call.kind = "eager"
    /\ call.before["normIn"] = None
    /\ call.out = FeedBatch(call.before["nn"], call.x)
    /\ call.out # call.x

\* C9: in evaluation mode forward changes no block state; two evaluations of
\* one batch on the same block states, by the model or by its traced export,
\* return the same output.
C9_EvalForwardPureAndTraceAgrees ==
    /\ (call.made /\ ~call.training) => ~call.changed
    /\ (call.made /\ call.rep.made /\ ~call.training /\ ~call.rep.training
            /\ call.rep.same) => call.out = call.rep.out

C9_Witness ==
    /\ call.made /\ call.kind = "traced"
    /\ call.rep.made /\ call.rep.kind = "eager" /\ ~call.rep.training /\ call.rep.same
    /\ call.before["normIn"] # None
    /\ call.before["nn"].weight # 2
    /\ call.out = call.rep.out

\* An option value that switches a block off; the slots that are ever built.
IsOff(v) == v = None \/ v = False
IsBuiltSlot(b) == b # "normNN"

\* C2: a built DeepTICA_CV holds a Normalization block in normIn, and in
\* normOut, exactly when the sanitized option of that name is neither None
\* nor False; nn and tica are always built; the slots are in the order
\* normIn, nn, tica, normOut.  A slot switched off never gets a block.
C2_TicaSlotsFollowOptions ==
    /\ dt.status = "built" =>
        /\ (dt.slots["normIn"] # None) <=> ~IsOff(dt.optNormIn)
        /\ (dt.slots["normOut"] # None) <=> ~IsOff(dt.optNormOut)
        /\ dt.slots["normIn"] # None =>
              dt.slots["normIn"] = Normalization(dt.in_features, dt.optNormIn)
        /\ dt.slots["normOut"] # None =>
              dt.slots["normOut"] = Normalization(dt.out_features, dt.optNormOut)
        /\ dt.slots["nn"] # None /\ dt.slots["nn"].kind = "FeedForward"
        /\ dt.slots["tica"] # None /\ dt.slots["tica"].kind = "TICA"
        /\ dt.slots["normNN"] = None
        /\ SelectSeq(dt.blocks, IsBuiltSlot) = <<"normIn", "nn", "tica", "normOut">>
    /\ dt.status # "none" =>
        /\ IsOff(dt.optNormIn) => dt.slots["normIn"] = None
        /\ IsOff(dt.optNormOut) => dt.slots["normOut"] = None

C2_Witness ==
    /\ dt.status = "built"
    /\ dt.slots["normIn"] # None /\ dt.optNormIn # EmptyDict
    /\ dt.slots["normOut"] = None /\ dt.optNormOut = False

\* Sum of the squares of a sequence of eigenvalues.
RECURSIVE SumSquares(_)
SumSquares(ev) == IF ev = <<>> THEN 0 ELSE Head(ev) * Head(ev) + SumSquares(Tail(ev))

\* C4: training_step returns minus reduce(eigenvalues, mode, n_eig) of the
\* eigenvalues tica.compute returned for this batch, under the model's loss
\* options; with the default options, minus the sum of their squares.
C4_LossIsMinusReducedEigenvalues ==
    ts.pc = "done" =>
        /\ ts.eigvals = TICA_compute(ts.pre["tica"], ts.f_t, ts.f_lag, ts.batch.weights,
                                     ts.batch.weights_lag, FALSE).evals
        /\ ts.ret + reduce_eigenvalues(ts.eigvals, dt.loss_options.mode,
                                       dt.loss_options.n_eig).val = 0
        /\ dt.loss_options = DefaultLossOptions => ts.ret = 0 - SumSquares(ts.eigvals)

C4_Witness ==
    /\ ts.pc = "done"
    /\ dt.loss_options = DefaultLossOptions
    /\ Len(ts.eigvals) = 2
    /\ ts.ret < 0

\* The loss an evaluation-mode step computes for a batch on given block states.
EvalModeLoss(slots, batch, loss_options) ==
    LET self  == [slots |-> slots, training |-> FALSE]
        f_t   == forward_nn(self, batch.data).out
        f_lag == forward_nn(self, batch.data_lag).out
        c     == TICA_compute(slots["tica"], f_t, f_lag, batch.weights,
                              batch.weights_lag, TRUE)
    IN  loss_function(c.evals, loss_options).val

\* C5: the extra full forward pass on x_t runs exactly in training mode,
\* after tica.compute and after the loss was computed; its result is not
\* used, so the loss returned is the one an evaluation-mode step returns for
\* the same batch and block states.
C5_ExtraPassOnlyInTrainingAfterLoss ==
    ts.pc = "done" =>
        /\ ts.events = <<"forward_nn", "forward_nn", "tica.compute", "loss_function",
                         "log_dict">>
                       \o (IF ts.training THEN <<"forward">> ELSE <<>>)
        /\ ts.ret = ts.loss
        /\ ts.ret = EvalModeLoss(ts.pre, ts.batch, dt.loss_options)
        /\ dt.slots["tica"].evals = ts.eigvals

C5_Witness ==
    /\ ts.pc = "done" /\ ts.training
    /\ ts.events[Len(ts.events)] = "forward"
    /\ dt.slots["normOut"] # None /\ dt.slots["normOut"].n_acc > 0
    /\ dt.slots["normIn"] # None /\ dt.slots["normIn"].mean # 0
    /\ ts.ret # 0

\* C7: a training batch whose data, data_lag, weights and weights_lag
\* disagree in shape makes training_step raise ShapeMismatchError before any
\* numeric work: no forward_nn has run, no statistics and no cached TICA
\* parameters have changed, nothing was logged.
C7_ShapeErrorBeforeAnyWork ==
    (ts.pc = "raised" /\ ts.err = "ShapeMismatchError") =>
        /\ ts.nFwd = 0
        /\ dt.slots = ts.pre
        /\ diag.n = ts.diag0

\* C8: set_regularization(value) changes reg_c0 of the TICA block and nothing
\* else (cached eigenvectors, loss options, the other blocks), and a later
\* tica.compute uses the value set last.
C8_SetRegularizationOnlyRegC0 ==
    lastSet.made =>
        /\ lastSet.others
        /\ dt.slots["tica"].reg_c0 = lastSet.value
        /\ ts.pc \in {"loss", "log", "norm", "done"} => ts.reg_used = lastSet.value

C8_Witness ==
    /\ lastSet.made /\ lastSet.value # 1
    /\ dt.slots["tica"].evals # <<>>
    /\ dt.slots["tica"].evecs # [j \in 1..dt.out_features |-> 1]
    /\ ts.pc = "idle"

C8_WitnessLaterCompute ==
    /\ lastSet.made /\ lastSet.value # 1
    /\ ts.pc = "done" /\ ts.reg_used = lastSet.value

====
